---- MODULE Spec2Model ----
(***************************************************************************)
(* State-machine model of the heuristic decision engine DefaultAI          *)
(* (src/ai/defaultAi.ts): action evaluation, budget-constrained selection, *)
(* the self-rescheduling sequencer, and the attack and block planners.     *)
(*                                                                         *)
(* Scores are JavaScript numbers in the source; evaluateEnchantment        *)
(* divides, so a score is kept here as an exact fraction <<num, den>>      *)
(* with den > 0.                                                           *)
(***************************************************************************)
EXTENDS Integers, Sequences, FiniteSets, TLC

\* ------------------------------------------------------------ bounds
MaxHand == 3
MaxBudget == 5
MaxAttackers == 2
MaxBlockers == 3
MaxOptions == 3
MaxDamageEvents == 3
MaxCrypt == 3

\* ------------------------------------------------------------ fractions
RZero == <<0, 1>>
RInt(n) == <<n, 1>>
RAdd(a, b) == <<a[1] * b[2] + b[1] * a[2], a[2] * b[2]>>
RLess(a, b) == a[1] * b[2] < b[1] * a[2]
RLeq(a, b) == a[1] * b[2] <= b[1] * a[2]
REq(a, b) == a[1] * b[2] = b[1] * a[2]
RPos(a) == a[1] > 0

\* ------------------------------------------------------------ cards
\* The cards a hand is drawn from.  cost: getCost().getNumeric(); play:
\* evaluate(game, EvalContext.Play); needsInput / optional: the targeter;
\* targets: evaluateTarget of each valid target, in getValidTargets order;
\* item / hosts: the host targeter's valid targets (unit: isUnit, mult:
\* getMultiplier); throws: the card's evaluation raises an exception.
NoHosts == <<>>
NoTargets == <<>>
Cards ==
  << [cost |-> 3, play |-> 10, needsInput |-> FALSE, optional |-> FALSE,
      targets |-> NoTargets, item |-> FALSE, hosts |-> NoHosts, throws |-> FALSE],
     [cost |-> 2, play |-> 6, needsInput |-> FALSE, optional |-> FALSE,
      targets |-> NoTargets, item |-> FALSE, hosts |-> NoHosts, throws |-> FALSE],
     [cost |-> 4, play |-> 9, needsInput |-> FALSE, optional |-> FALSE,
      targets |-> NoTargets, item |-> FALSE, hosts |-> NoHosts, throws |-> FALSE],
     [cost |-> 0, play |-> 1, needsInput |-> FALSE, optional |-> FALSE,
      targets |-> NoTargets, item |-> FALSE, hosts |-> NoHosts, throws |-> FALSE],
     [cost |-> 1, play |-> 0, needsInput |-> FALSE, optional |-> FALSE,
      targets |-> NoTargets, item |-> FALSE, hosts |-> NoHosts, throws |-> FALSE],
     [cost |-> 1, play |-> -2, needsInput |-> TRUE, optional |-> TRUE,
      targets |-> <<1, 3, 3>>, item |-> FALSE, hosts |-> NoHosts, throws |-> FALSE],
     [cost |-> 1, play |-> 2, needsInput |-> TRUE, optional |-> TRUE,
      targets |-> <<-1, 0>>, item |-> FALSE, hosts |-> NoHosts, throws |-> FALSE],
     [cost |-> 2, play |-> 1, needsInput |-> TRUE, optional |-> FALSE,
      targets |-> <<-2, -1>>, item |-> FALSE, hosts |-> NoHosts, throws |-> FALSE],
     [cost |-> 1, play |-> 4, needsInput |-> TRUE, optional |-> FALSE,
      targets |-> NoTargets, item |-> FALSE, hosts |-> NoHosts, throws |-> FALSE],
     [cost |-> 2, play |-> 2, needsInput |-> FALSE, optional |-> FALSE,
      targets |-> NoTargets, item |-> TRUE,
      hosts |-> <<[unit |-> FALSE, mult |-> 9], [unit |-> TRUE, mult |-> 1],
                  [unit |-> TRUE, mult |-> 2]>>, throws |-> FALSE],
     [cost |-> 1, play |-> 5, needsInput |-> FALSE, optional |-> FALSE,
      targets |-> NoTargets, item |-> TRUE,
      hosts |-> <<[unit |-> FALSE, mult |-> 1]>>, throws |-> FALSE],
     [cost |-> 0, play |-> 7, needsInput |-> FALSE, optional |-> FALSE,
      targets |-> NoTargets, item |-> FALSE, hosts |-> NoHosts, throws |-> TRUE] >>
CardIds == 1 .. Len(Cards)
\* Hands are drawn from the cards without targeter, host or failure, or from
\* the cards with one of them.
PlainCards == {c \in CardIds : ~Cards[c].needsInput /\ ~Cards[c].item /\ ~Cards[c].throws}
SpecialCards == (CardIds \ PlainCards) \cup {4}

\* The enchantments a board is drawn from (getModifyCost, getCost, owner);
\* throws: reading the enchantment for its evaluation raises.
Enchantments ==
  << [modifyCost |-> 1, playCost |-> 2, mine |-> TRUE, throws |-> FALSE],
     [modifyCost |-> 2, playCost |-> 3, mine |-> FALSE, throws |-> FALSE],
     [modifyCost |-> 1, playCost |-> 1, mine |-> TRUE, throws |-> TRUE] >>
EnchantmentIds == 1 .. Len(Enchantments)

\* ------------------------------------------------------------ lodash
\* maxBy / minBy over a sequence of integer keys: the index of the first
\* element with the greatest / least key, 0 (undefined) for an empty list.
MaxByIndex(keys) ==
  IF Len(keys) = 0 THEN 0
  ELSE CHOOSE i \in 1 .. Len(keys) :
         /\ \A j \in 1 .. Len(keys) : keys[j] <= keys[i]
         /\ \A j \in 1 .. (i - 1) : keys[j] < keys[i]

MinByIndex(keys) ==
  IF Len(keys) = 0 THEN 0
  ELSE CHOOSE i \in 1 .. Len(keys) :
         /\ \A j \in 1 .. Len(keys) : keys[j] >= keys[i]
         /\ \A j \in 1 .. (i - 1) : keys[j] > keys[i]

\* ------------------------------------------------------------ evaluated actions
\* interface EvaluatedAction: score, cost, card?, enchantmentTarget?,
\* target?, host?.  An absent optional field is 0.
EvaluatedAction(score, cost, card, enchantmentTarget, target, host) ==
  [score |-> score, cost |-> cost, card |-> card,
   enchantmentTarget |-> enchantmentTarget, target |-> target, host |-> host]

\* The catch branch of selectActions: { score: 0, cost: 0 }.
Placeholder == EvaluatedAction(RZero, 0, 0, 0, 0, 0)

\* Mutant of getBestTarget: minBy instead of maxBy.
GetBestTarget_Min(c) ==
  LET best == MinByIndex(Cards[c].targets)
  IN  IF best = 0
      THEN EvaluatedAction(RZero, Cards[c].cost, c, 0, 0, 0)
      ELSE EvaluatedAction(RInt(Cards[c].targets[best]), Cards[c].cost, c, 0, best, 0)

\* getBestTarget: the first maximal target and its score, or no target and
\* score 0 when there is no valid target.
GetBestTarget(c) ==
  LET best == MaxByIndex(Cards[c].targets)
  IN  IF best = 0
      THEN EvaluatedAction(RZero, Cards[c].cost, c, 0, 0, 0)
      ELSE EvaluatedAction(RInt(Cards[c].targets[best]), Cards[c].cost, c, 0, best, 0)

\* getBestHost: the first unit host with the greatest multiplier; 0 stands
\* for the thrown 'A.I could not find host for item'.
GetBestHost(c) ==
  LET hosts == Cards[c].hosts
      units == {i \in 1 .. Len(hosts) : hosts[i].unit}
  IN  IF units = {} THEN 0
      ELSE CHOOSE i \in units :
             /\ \A j \in units : hosts[j].mult <= hosts[i].mult
             /\ \A j \in units : j < i => hosts[j].mult < hosts[i].mult

\* Whether evaluateCard(c) raises: the card's own evaluation throws, or
\* getBestHost finds no unit among the hosts.
EvaluateCardThrows(c) ==
  \/ Cards[c].throws
  \/ Cards[c].item /\ GetBestHost(c) = 0

\* Mutant of evaluateCard: the action carries no cost.
EvaluateCard_NoCost(c) ==
  LET start == EvaluatedAction(RZero, 0, c, 0, 0, 0)
      best == [GetBestTarget(c) EXCEPT !.cost = 0]
      result == IF Cards[c].needsInput /\ (RPos(best.score) \/ ~Cards[c].optional)
                THEN best ELSE start
      hosted == IF Cards[c].item
                THEN [result EXCEPT !.host = GetBestHost(c)] ELSE result
  IN  [hosted EXCEPT !.score = RAdd(hosted.score, RInt(Cards[c].play))]

\* evaluateCard, for a card whose evaluation does not raise.
EvaluateCard(c) ==
  LET start == EvaluatedAction(RZero, Cards[c].cost, c, 0, 0, 0)
      best == GetBestTarget(c)
      result == IF Cards[c].needsInput /\ (RPos(best.score) \/ ~Cards[c].optional)
                THEN best ELSE start
      hosted == IF Cards[c].item
                THEN [result EXCEPT !.host = GetBestHost(c)] ELSE result
  IN  [hosted EXCEPT !.score = RAdd(hosted.score, RInt(Cards[c].play))]

\* Whether evaluateEnchantment(e) raises.
EvaluateEnchantmentThrows(e) == Enchantments[e].throws

\* Mutant of evaluateEnchantment: the action carries the play cost instead
\* of the modify cost.
EvaluateEnchantment_PlayCost(e, pow) ==
  EvaluatedAction(<<Enchantments[e].playCost, Enchantments[e].modifyCost * pow>>,
                  Enchantments[e].playCost, 0, e, 0, 0)

\* evaluateEnchantment: score = playCost / (modifyCost * power).
EvaluateEnchantment(e, pow) ==
  EvaluatedAction(<<Enchantments[e].playCost, Enchantments[e].modifyCost * pow>>,
                  Enchantments[e].modifyCost, 0, e, 0, 0)

\* ------------------------------------------------------------ budget optimizer
RECURSIVE SumCost(_, _)
SumCost(S, actions) ==
  IF S = {} THEN 0
  ELSE LET i == CHOOSE x \in S : TRUE
       IN  actions[i].cost + SumCost(S \ {i}, actions)

RECURSIVE SumScore(_, _)
SumScore(S, actions) ==
  IF S = {} THEN RZero
  ELSE LET i == CHOOSE x \in S : TRUE
       IN  RAdd(actions[i].score, SumScore(S \ {i}, actions))

\* The greatest individual score in S (zero for the empty set; every kept
\* item has a positive score).
RECURSIVE TopScore(_, _)
TopScore(S, actions) ==
  IF S = {} THEN RZero
  ELSE LET i == CHOOSE x \in S : TRUE
           rest == TopScore(S \ {i}, actions)
       IN  IF RLess(rest, actions[i].score) THEN actions[i].score ELSE rest

\* knapsack(capacity, items).set: the index sets the 0/1 knapsack may return.
\* An item is kept only where it strictly raises the value, so no item with
\* score <= 0 is kept; among sets of equal value the one holding the
\* highest-scoring single item is preferred.
Knapsack(capacity, actions) ==
  LET positive == {i \in 1 .. Len(actions) : RPos(actions[i].score)}
      feasible == {S \in SUBSET positive : SumCost(S, actions) <= capacity}
      value == [S \in feasible |-> SumScore(S, actions)]
      optimal == {S \in feasible : \A T \in feasible : RLeq(value[T], value[S])}
      top == [S \in optimal |-> TopScore(S, actions)]
  IN  {S \in optimal : \A T \in optimal : RLeq(top[T], top[S])}

\* ------------------------------------------------------------ units
\* The units a board is drawn from: getDamage, getLife, the Lethal, Shielded
\* and Flying mechanics, and evaluate(game, EvalContext.LethalRemoval).
Units ==
  << [damage |-> 1, life |-> 7, lethal |-> FALSE, shielded |-> FALSE, flying |-> FALSE, value |-> 4],
     [damage |-> 3, life |-> 2, lethal |-> FALSE, shielded |-> FALSE, flying |-> FALSE, value |-> 3],
     [damage |-> 2, life |-> 2, lethal |-> FALSE, shielded |-> FALSE, flying |-> TRUE, value |-> 2],
     [damage |-> 2, life |-> 3, lethal |-> FALSE, shielded |-> TRUE, flying |-> FALSE, value |-> 6],
     [damage |-> 6, life |-> 6, lethal |-> FALSE, shielded |-> FALSE, flying |-> FALSE, value |-> 5],
     [damage |-> 6, life |-> 3, lethal |-> FALSE, shielded |-> FALSE, flying |-> TRUE, value |-> 4],
     [damage |-> 2, life |-> 2, lethal |-> FALSE, shielded |-> FALSE, flying |-> FALSE, value |-> 4],
     [damage |-> 1, life |-> 1, lethal |-> TRUE, shielded |-> FALSE, flying |-> FALSE, value |-> 3],
     [damage |-> 0, life |-> 4, lethal |-> FALSE, shielded |-> FALSE, flying |-> FALSE, value |-> 1],
     [damage |-> 1, life |-> 4, lethal |-> FALSE, shielded |-> FALSE, flying |-> FALSE, value |-> 2] >>
OwnIds == {1, 2, 3, 4, 9}
EnemyIds == {5, 6, 7, 8, 10}
Lives == {3, 7, 10}

\* The amounts a TakeDamage event carries.
DamageAmounts == 0 .. 2

\* enum BlockOutcome, in its declared order.
AttackerDies == 0
NeitherDies == 1
BothDie == 2
BlockerDies == 3

\* CombatAnalyzer.categorizeBlock: one simultaneous exchange.  A shielded
\* unit absorbs the hit; a lethal unit kills on any positive damage dealt.
DamageDealt(source, target) ==
  IF Units[target].shielded THEN 0 ELSE Units[source].damage

Dies(unit, by) ==
  LET dealt == DamageDealt(by, unit)
  IN  dealt > 0 /\ (Units[by].lethal \/ dealt >= Units[unit].life)

CategorizeBlock(attacker, blocker) ==
  LET attackerDies == Dies(attacker, blocker)
      blockerDies == Dies(blocker, attacker)
  IN  IF attackerDies /\ blockerDies THEN BothDie
      ELSE IF attackerDies THEN AttackerDies
      ELSE IF blockerDies THEN BlockerDies
      ELSE NeitherDies

\* ------------------------------------------------------------ state
VARIABLES
  phase,              \* game.getPhase(): "Play" or "Block"
  hand,               \* aiPlayer.getHand(): the card ids in hand
  budget,             \* aiPlayer.getPool().getNumeric()
  power,              \* getPower() of each enchantment, 0: not on the board
  canPlayResource,    \* game.canPlayResource()
  myUnits,            \* getPlayerUnits(playerNumber)
  enemyUnits,         \* getPlayerUnits(enemyNumber)
  canAttack,          \* the units of myUnits with canAttack()
  ableToBlock,        \* the units of myUnits with canBlock()
  exhausted,          \* the units of enemyUnits with isExhausted()
  attackers,          \* game.getAttackers(), in order
  life,               \* aiPlayer.getLife()
  actionSequence,     \* the queued steps of the sequencer
  declaredAttackers,  \* units passed to game.declareAttacker
  declaredBlocks,     \* <<blocker, attacker>> pairs passed to game.declareBlocker
  thought,            \* think() has been invoked for this decision opportunity
  plan,               \* what the latest selectActions step read and chose
  commit,             \* the latest runEvaluatedAction and the budget around it
  spent,              \* total cost of the actions committed so far
  runBudget,          \* the budget when the sequencer run started, -1 before
  lastOp,             \* the operation that ran last
  blockTrace,         \* per attacker, what the latest block() pass decided
  prompt,             \* the arguments of the game's promptCardChoice call
  prompting,          \* "none", "pending", "called" (on the stack), "returned"
  deferred,           \* the calls of game.deferChoice
  timeouts,           \* the continuations registered with setTimeout(..., 0)
  answers,            \* the calls of game.makeChoice
  choiceLog,          \* what the latest getCardToChoose did
  struck,             \* the unit whose Shielded mechanic is followed, 0: none
  attached,           \* Shielded's TakeDamage event is among the unit's events
  depleted,           \* Shielded.depleted
  damageLog,          \* the TakeDamage events of the unit: amount sent and taken
  crypt,              \* game.getCrypt(owner), in order
  allowed,            \* ReturnFromCrypt.allowed, "none": no such mechanic is followed
  drawn,              \* the cards passed to player.drawGeneratedCard
  cryptLog            \* the crypt before the callback ran; delivered; changed

game == <<phase, hand, budget, power, canPlayResource>>
board == <<myUnits, enemyUnits, canAttack, ableToBlock, exhausted, attackers, life>>
declared == <<declaredAttackers, declaredBlocks>>
history == <<thought, plan, commit, spent, runBudget, lastOp, blockTrace>>
choice == <<prompt, prompting, deferred, timeouts, answers, choiceLog>>
shield == <<struck, attached, depleted, damageLog>>
crypts == <<crypt, allowed, drawn, cryptLog>>
mechanics == <<shield, crypts>>
vars == <<game, board, actionSequence, declared, history, choice, mechanics>>

\* ------------------------------------------------------------ queued steps
Step(op, action, blocker, attacker) ==
  [op |-> op, action |-> action, blocker |-> blocker, attacker |-> attacker]
PlayResourceStep == Step("playResource", Placeholder, 0, 0)
SelectActionsStep == Step("selectActions", Placeholder, 0, 0)
AttackStep == Step("attack", Placeholder, 0, 0)
RunStep(action) == Step("runEvaluatedAction", action, 0, 0)
BlockStep(blocker, attacker) == Step("declareBlocker", Placeholder, blocker, attacker)

\* AI.sequenceActions: the steps join the end of the queue.
SequenceActions(seq, steps) == seq \o steps

\* AI.addActionToSequence(action, front).
AddActionToSequence(seq, step, front) ==
  IF front THEN <<step>> \o seq ELSE Append(seq, step)

\* ------------------------------------------------------------ action evaluator
RECURSIVE Ascending(_)
Ascending(S) ==
  IF S = {} THEN <<>>
  ELSE LET m == CHOOSE x \in S : \A y \in S : x <= y
       IN  <<m>> \o Ascending(S \ {m})

\* Card.isPlayable (the cost is met); Item.isPlayable adds that the host
\* targeter has at least one valid target.
IsPlayable(c, inHand, pool) ==
  /\ c \in inHand
  /\ Cards[c].cost <= pool
  /\ Cards[c].item => Len(Cards[c].hosts) > 0

\* game.canModifyEnchantment: on the board and the modify cost is met.
CanModifyEnchantment(e, pow, pool) ==
  pow[e] > 0 /\ Enchantments[e].modifyCost <= pool

\* getModifiableEnchantments.
GetModifiableEnchantments(pow, pool) ==
  Ascending({e \in EnchantmentIds : CanModifyEnchantment(e, pow, pool)})

\* Mutant of lines 306-313: evaluateCard without the try / catch.
TryEvaluateCard_NoCatch(c) == EvaluateCard(c)

\* One playable card's entry of the list: evaluateCard inside try / catch.
TryEvaluateCard(c) ==
  IF EvaluateCardThrows(c) THEN Placeholder ELSE EvaluateCard(c)

\* selectActions, lines 300-318: the evaluated candidates, cards first.
Candidates(inHand, pool, pow) ==
  LET playableCards == Ascending({c \in inHand : IsPlayable(c, inHand, pool)})
      modifiable == GetModifiableEnchantments(pow, pool)
  IN  [i \in 1 .. Len(playableCards) |-> TryEvaluateCard(playableCards[i])]
      \o [i \in 1 .. Len(modifiable) |-> EvaluateEnchantment(modifiable[i], pow[modifiable[i]])]

\* selectActions, lines 314-318: evaluateEnchantment is mapped over the
\* modifiable enchantments outside the try / catch, so when it raises for
\* one of them selectActions raises.
EnchantmentRaises(pow, pool) ==
  \E e \in EnchantmentIds :
    CanModifyEnchantment(e, pow, pool) /\ EvaluateEnchantmentThrows(e)

\* Mutant of the knapsack call: the capacity is one more than the energy.
ActionsToRun_OverCapacity(energy, actions) == Knapsack(energy + 1, actions)

\* selectActions, lines 320-331: what the knapsack is asked and may return.
ActionsToRun(energy, actions) == Knapsack(energy, actions)

\* Mutant of maxBy(actionsToRun, score): minBy.
BestOf_Min(chosen, actions) ==
  IF chosen = {} THEN {0}
  ELSE {i \in chosen : \A j \in chosen : RLeq(actions[i].score, actions[j].score)}

\* maxBy(actionsToRun, score): an index of greatest score among the chosen
\* ones, 0 (undefined) when nothing was chosen.  The order of the knapsack's
\* set is not fixed, so any maximal element may come first.
BestOf(chosen, actions) ==
  IF chosen = {} THEN {0}
  ELSE {i \in chosen : \A j \in chosen : RLeq(actions[j].score, actions[i].score)}

\* Mutant of lines 333-337: replanning is queued without the test of best.
Resequence_Always(rest, actions, best) ==
  IF best # 0
  THEN AddActionToSequence(AddActionToSequence(rest, SelectActionsStep, TRUE),
                           RunStep(actions[best]), TRUE)
  ELSE AddActionToSequence(rest, SelectActionsStep, TRUE)

\* Mutant of lines 333-337: both steps are queued without front = true.
Resequence_Back(rest, actions, best) ==
  IF best # 0
  THEN AddActionToSequence(AddActionToSequence(rest, SelectActionsStep, FALSE),
                           RunStep(actions[best]), FALSE)
  ELSE rest

\* selectActions, lines 333-337: replanning goes to the front of the queue,
\* then the commit goes in front of it; nothing is queued without a best.
Resequence(rest, actions, best) ==
  IF best # 0
  THEN AddActionToSequence(AddActionToSequence(rest, SelectActionsStep, TRUE),
                           RunStep(actions[best]), TRUE)
  ELSE rest

\* ------------------------------------------------------------ combat
\* Unit.canBlockTarget under the Flying mechanic's CheckBlock event: a flying
\* attacker can be blocked by flying units only.
CanBlockTarget(blocker, attacker) ==
  Units[attacker].flying => Units[blocker].flying

\* Mutant of canFavorablyBlock: the comparison of the valuations is turned.
CanFavorablyBlock_BlockerWorth(attacker, blocker) ==
  /\ CanBlockTarget(blocker, attacker)
  /\ LET type == CategorizeBlock(attacker, blocker)
     IN  \/ type = AttackerDies
         \/ type = NeitherDies
         \/ type = BothDie /\ Units[blocker].value > Units[attacker].value

\* Mutant of canFavorablyBlock: the test of canBlockTarget is left out.
CanFavorablyBlock_AnyTarget(attacker, blocker) ==
  LET type == CategorizeBlock(attacker, blocker)
  IN  \/ type = AttackerDies
      \/ type = NeitherDies
      \/ type = BothDie /\ Units[attacker].value > Units[blocker].value

\* canFavorablyBlock.
CanFavorablyBlock(attacker, blocker) ==
  /\ CanBlockTarget(blocker, attacker)
  /\ LET type == CategorizeBlock(attacker, blocker)
     IN  \/ type = AttackerDies
         \/ type = NeitherDies
         \/ type = BothDie /\ Units[attacker].value > Units[blocker].value

\* Mutant of attack: the filter on getDamage() > 0 is left out.
AttackersToDeclare_AnyDamage(mine, able, enemy, tapped) ==
  LET potentialAttackers == {u \in mine : u \in able}
      potentialBlockers == {u \in enemy : u \notin tapped}
  IN  {a \in potentialAttackers :
         ~ \E b \in potentialBlockers : CanFavorablyBlock(a, b)}

\* attack: the units declared as attackers.
AttackersToDeclare(mine, able, enemy, tapped) ==
  LET potentialAttackers == {u \in mine : u \in able /\ Units[u].damage > 0}
      potentialBlockers == {u \in enemy : u \notin tapped}
  IN  {a \in potentialAttackers :
         ~ \E b \in potentialBlockers : CanFavorablyBlock(a, b)}

\* ------------------------------------------------------------ block planner
\* sortBy key of block(): descending damage, flying attackers first.
ThreatKey(a) ==
  -(Units[a].damage + (IF Units[a].flying THEN 1000 ELSE 0))

\* lodash sortBy (stable, ascending key).
RECURSIVE SortByThreat(_)
SortByThreat(seq) ==
  IF seq = <<>> THEN <<>>
  ELSE LET i == MinByIndex([j \in 1 .. Len(seq) |-> ThreatKey(seq[j])])
       IN  <<seq[i]>> \o SortByThreat(SubSeq(seq, 1, i - 1) \o SubSeq(seq, i + 1, Len(seq)))

RECURSIVE SumDamage(_)
SumDamage(seq) ==
  IF seq = <<>> THEN 0 ELSE Units[Head(seq)].damage + SumDamage(Tail(seq))

\* block(), lines 592-595: the pool the blockers are taken from.
PotentialBlockers(mine, able) ==
  Ascending({u \in mine : ~(u \in able)})

\* block(), lines 601-626: the pairings of one attacker with the pool.
Options(attacker, pool) ==
  LET usable == SelectSeq(pool, LAMBDA b : CanBlockTarget(b, attacker))
  IN  [i \in 1 .. Len(usable) |->
         [blocker |-> usable[i], attacker |-> attacker,
          type |-> CategorizeBlock(attacker, usable[i]),
          tradeScore |-> Units[usable[i]].value - Units[attacker].value]]

\* block(), lines 627-630: minBy(options, type * 100000 + tradeScore).
BestOption(options) ==
  MinByIndex([i \in 1 .. Len(options) |->
                options[i].type * 100000 + options[i].tradeScore])

\* Mutant of lines 631-637: a BothDie pairing is committed at any trade score.
ShouldBlock_AnyTrade(best, totalDamage, lifeNow) ==
  \/ totalDamage >= lifeNow
  \/ best.type <= BothDie

\* block(), lines 631-637: whether the best pairing is committed.
ShouldBlock(best, totalDamage, lifeNow) ==
  \/ totalDamage >= lifeNow
  \/ best.type < BothDie
  \/ best.type = BothDie /\ best.tradeScore <= 0

\* Mutant of line 640: the chosen blocker stays in the pool.
RemoveBlocker_Keep(pool, blocker) == pool

\* block(), line 640: remove(potentialBlockers, unit => unit === best.blocker).
RemoveBlocker(pool, blocker) ==
  SelectSeq(pool, LAMBDA u : u # blocker)

\* block(), lines 600-642: the loop over the sorted attackers.  Each entry
\* records one iteration: the pool and running total it started with, the
\* options, the best one (0: undefined) and whether it was pushed to blocks.
RECURSIVE BlockPass(_, _, _, _)
BlockPass(atts, totalDamage, pool, lifeNow) ==
  IF atts = <<>> THEN <<>>
  ELSE LET attacker == Head(atts)
           options == Options(attacker, pool)
           best == BestOption(options)
           pushed == IF best = 0 THEN FALSE
                     ELSE ShouldBlock(options[best], totalDamage, lifeNow)
           after == IF pushed THEN totalDamage - Units[attacker].damage
                    ELSE totalDamage
           left == IF pushed THEN RemoveBlocker(pool, options[best].blocker)
                   ELSE pool
       IN  << [attacker |-> attacker, pool |-> pool, options |-> options,
               best |-> best, total |-> totalDamage, after |-> after,
               pushed |-> pushed] >>
           \o BlockPass(Tail(atts), after, left, lifeNow)

\* block(), lines 643-646: one declareBlocker step per pushed block.
BlockSteps(trace) ==
  LET pushed == SelectSeq(trace, LAMBDA t : t.pushed)
  IN  [i \in 1 .. Len(pushed) |->
         BlockStep(pushed[i].options[pushed[i].best].blocker, pushed[i].attacker)]

\* ------------------------------------------------------------ choice heuristics
\* The cards a prompt offers, the unique cards of the deck, and getStats()
\* of the offered cards.
ChoiceCards == {1, 2, 5}
DeckCards == {1, 2, 4}
Stats == [c \in ChoiceCards |-> IF c = 2 THEN 3 ELSE 5]
HeuristicTypes == {"DrawHeuristic", "DiscardHeuristic", "HighestStatsHeuristic", "ReplaceHeuristic"}

\* lodash take(array, n) and array.slice(n).
Take(seq, n) ==
  SubSeq(seq, 1, IF n < 0 THEN 0 ELSE IF n > Len(seq) THEN Len(seq) ELSE n)
Slice(seq, n) ==
  IF n >= Len(seq) THEN <<>> ELSE SubSeq(seq, n + 1, Len(seq))

\* lodash sortBy(array, key): stable, ascending by key.
RECURSIVE SortBy(_, _)
SortBy(seq, key) ==
  IF seq = <<>> THEN <<>>
  ELSE LET i == MinByIndex([j \in 1 .. Len(seq) |-> key[seq[j]]])
       IN  <<seq[i]>> \o SortBy(SubSeq(seq, 1, i - 1) \o SubSeq(seq, i + 1, Len(seq)), key)

\* cardDrawHeuristic: | pool - cost |.
CardDrawHeuristic(card, pool) ==
  IF pool >= Cards[card].cost THEN pool - Cards[card].cost
  ELSE Cards[card].cost - pool

DrawKey(pool) == [c \in CardIds |-> CardDrawHeuristic(c, pool)]
DiscardKey(pool) == [c \in CardIds |-> -CardDrawHeuristic(c, pool)]

\* Mutant of evaluateToDraw: every choice is returned, in sorted order.
EvaluateToDraw_All(choices, min, max, pool) ==
  SortBy(choices, DrawKey(pool))

\* evaluateToDraw.
EvaluateToDraw(choices, min, max, pool) ==
  Take(SortBy(choices, DrawKey(pool)), max)

\* Mutant of evaluateToDiscard: the key is not negated.
EvaluateToDiscard_Ascending(choices, min, max, pool) ==
  Take(SortBy(choices, DrawKey(pool)), min)

\* evaluateToDiscard.
EvaluateToDiscard(choices, min, max, pool) ==
  Take(SortBy(choices, DiscardKey(pool)), min)

RECURSIVE SumHeuristic(_, _)
SumHeuristic(S, pool) ==
  IF S = {} THEN 0
  ELSE LET c == CHOOSE x \in S : TRUE
       IN  CardDrawHeuristic(c, pool) + SumHeuristic(S \ {c}, pool)

\* Mutant of evaluateToReplace: the optional cards are not filtered by the
\* deck's average.
EvaluateToReplace_Unfiltered(choices, min, max, pool) ==
  LET worst == SortBy(choices, DiscardKey(pool))
      mandatory == Take(worst, min)
      rest == Slice(worst, min)
      optional == IF Len(rest) > 0 THEN SortBy(rest, DrawKey(pool)) ELSE rest
  IN  mandatory \o Take(optional, max - Len(mandatory))

\* evaluateToReplace; heuristic > meanBy(deck) is compared as
\* heuristic * count > sum.
EvaluateToReplace(choices, min, max, pool) ==
  LET worst == SortBy(choices, DiscardKey(pool))
      mandatory == Take(worst, min)
      rest == Slice(worst, min)
      above == SelectSeq(rest, LAMBDA c :
                 CardDrawHeuristic(c, pool) * Cardinality(DeckCards)
                   > SumHeuristic(DeckCards, pool))
      optional == IF Len(rest) > 0 THEN SortBy(above, DrawKey(pool)) ELSE rest
  IN  mandatory \o Take(optional, max - Len(mandatory))

\* highestStatHeuristic.
HighestStatHeuristic(choices, min, max) ==
  Take(SortBy(choices, [c \in ChoiceCards |-> -Stats[c]]), max)

\* getHeuristic, applied.
GetHeuristic(heuristicType, choices, min, max, pool) ==
  CASE heuristicType = "DrawHeuristic" -> EvaluateToDraw(choices, min, max, pool)
    [] heuristicType = "DiscardHeuristic" -> EvaluateToDiscard(choices, min, max, pool)
    [] heuristicType = "HighestStatsHeuristic" -> HighestStatHeuristic(choices, min, max)
    [] heuristicType = "ReplaceHeuristic" -> EvaluateToReplace(choices, min, max, pool)

\* Mutant of getCardToChoose: the test of options.length < min is left out.
GetCardToChoose_NoShortcut(options, min, max, heuristicType, pool) ==
  LET choices == GetHeuristic(heuristicType, options, min, max, pool)
  IN  [cards |-> GetHeuristic(heuristicType, options, min, max, pool),
       invoked |-> 2,
       logged |-> (Len(choices) > max \/ Len(choices) < min)]

\* getCardToChoose: the cards returned, how often the evaluator was invoked
\* and whether 'bug in evaluator' was logged.
GetCardToChoose(options, min, max, heuristicType, pool) ==
  IF Len(options) < min
  THEN [cards |-> options, invoked |-> 0, logged |-> FALSE]
  ELSE LET choices == GetHeuristic(heuristicType, options, min, max, pool)
       IN  [cards |-> GetHeuristic(heuristicType, options, min, max, pool),
            invoked |-> 2,
            logged |-> (Len(choices) > max \/ Len(choices) < min)]

\* Mutant of makeChoice, lines 225-228: game.makeChoice is called at once.
ScheduleAnswer_AtOnce(queue, sent, cards) ==
  [timeouts |-> queue, answers |-> Append(sent, cards)]

\* makeChoice, lines 225-228: setTimeout(() => game.makeChoice(...), 0).
ScheduleAnswer(queue, sent, cards) ==
  [timeouts |-> Append(queue, cards), answers |-> sent]

\* ------------------------------------------------------------ initial states
NoPlan == [energy |-> 0, actions |-> <<>>, chosen |-> {}, best |-> 0, queued |-> FALSE]
NoCommit == [action |-> Placeholder, before |-> 0, after |-> 0, ok |-> FALSE]
NoPrompt == [player |-> "none", options |-> <<>>, min |-> 0, max |-> 0,
             callback |-> FALSE, heuristicType |-> "none"]
NoChoice == [cards |-> <<>>, invoked |-> 0, logged |-> FALSE]

RECURSIVE DistinctSeqs(_, _)
DistinctSeqs(S, n) ==
  IF n = 0 THEN {<<>>}
  ELSE LET shorter == DistinctSeqs(S, n - 1)
       IN  shorter \cup {Append(q, x) : q \in shorter, x \in S}

AtMost(S, n) == {T \in SUBSET S : Cardinality(T) <= n}

\* ------------------------------------------------------------ ReturnFromCrypt
\* The cards that can lie in a crypt and their getCardType().
CryptCards == {1, 2, 3}
CardTypes == {"Unit", "Spell"}
CardType == [c \in CryptCards |-> IF c = 3 THEN "Spell" ELSE "Unit"]

\* getValidCards: the crypt's cards of the allowed type, in the crypt's order.
GetValidCards(cryptCards, allowedType) ==
  SelectSeq(cryptCards, LAMBDA c : CardType[c] = allowedType)

\* Array.prototype.indexOf: the 0-based index of the first occurrence, -1
\* when there is none.
IndexOf(seq, x) ==
  IF \E k \in 1 .. Len(seq) : seq[k] = x
  THEN (CHOOSE k \in 1 .. Len(seq) :
          seq[k] = x /\ \A j \in 1 .. k - 1 : seq[j] # x) - 1
  ELSE -1

\* Array.prototype.splice(start, 1): a negative start counts from the end.
Splice(seq, start) ==
  LET from == IF start < 0
              THEN (IF Len(seq) + start < 0 THEN 0 ELSE Len(seq) + start)
              ELSE (IF start > Len(seq) THEN Len(seq) ELSE start)
  IN  IF from >= Len(seq) THEN seq
      ELSE SubSeq(seq, 1, from) \o SubSeq(seq, from + 2, Len(seq))

\* The callback of onTrigger: each raised card is drawn and
\* crypt.splice(crypt.indexOf(raisedCard), 1) is applied.
RECURSIVE Raise(_, _, _)
Raise(cryptCards, inHand, raised) ==
  IF raised = <<>> THEN [crypt |-> cryptCards, drawn |-> inHand]
  ELSE Raise(Splice(cryptCards, IndexOf(cryptCards, Head(raised))),
             Append(inHand, Head(raised)), Tail(raised))

NoCryptLog == [before |-> <<>>, delivered |-> FALSE, changed |-> FALSE]

InitCommon ==
  /\ actionSequence = <<>>
  /\ declaredAttackers = {}
  /\ declaredBlocks = {}
  /\ plan = NoPlan
  /\ commit = NoCommit
  /\ spent = 0
  /\ runBudget = -1
  /\ lastOp = "init"
  /\ blockTrace = <<>>
  /\ deferred = <<>>
  /\ timeouts = <<>>
  /\ answers = <<>>
  /\ choiceLog = NoChoice

\* No Shielded mechanic is followed.
NoShield ==
  /\ struck = 0
  /\ attached = FALSE
  /\ depleted = FALSE
  /\ damageLog = <<>>

\* No ReturnFromCrypt mechanic is followed.
NoCrypt ==
  /\ crypt = <<>>
  /\ allowed = "none"
  /\ drawn = <<>>
  /\ cryptLog = NoCryptLog

NoMechanic == NoShield /\ NoCrypt

\* think() is about to be invoked and the game poses no prompt.
ToThink ==
  /\ NoMechanic
  /\ thought = FALSE
  /\ prompt = NoPrompt
  /\ prompting = "none"

\* A main-phase decision with cards in hand and enchantments on the board.
InitPlay ==
  /\ ToThink
  /\ phase = "Play"
  /\ hand \in AtMost(PlainCards, MaxHand) \cup AtMost(SpecialCards, MaxHand)
  /\ budget \in 0 .. MaxBudget
  /\ power \in [EnchantmentIds -> {0, 2}]
  /\ canPlayResource \in BOOLEAN
  /\ myUnits = {} /\ enemyUnits = {} /\ canAttack = {}
  /\ ableToBlock = {} /\ exhausted = {} /\ attackers = <<>>
  /\ life \in {10}

\* A main-phase decision with units on both sides, and either nothing to play
\* or one card that the turn's resource play makes affordable.
InitCombat ==
  /\ ToThink
  /\ phase = "Play"
  /\ hand \in {{}, {2}}
  /\ budget = (IF hand = {} THEN 0 ELSE 1)
  /\ canPlayResource = (hand # {})
  /\ power = [e \in EnchantmentIds |-> 0]
  /\ myUnits \in AtMost(OwnIds, MaxBlockers)
  /\ myUnits # {}
  /\ canAttack \in SUBSET myUnits
  /\ ableToBlock = myUnits
  /\ enemyUnits \in AtMost(EnemyIds, MaxAttackers)
  /\ exhausted \in SUBSET enemyUnits
  /\ attackers = <<>>
  /\ life \in {10}

\* A block-phase decision: the enemy's attackers are declared.
InitBlock ==
  /\ ToThink
  /\ phase = "Block"
  /\ hand = {} /\ budget = 0 /\ canPlayResource = FALSE
  /\ power = [e \in EnchantmentIds |-> 0]
  /\ myUnits \in AtMost(OwnIds, MaxBlockers)
  /\ ableToBlock \in SUBSET myUnits
  /\ canAttack = {}
  /\ attackers \in DistinctSeqs(EnemyIds, MaxAttackers)
  /\ attackers # <<>>
  /\ \A i, j \in 1 .. Len(attackers) : i # j => attackers[i] # attackers[j]
  /\ enemyUnits = {attackers[i] : i \in 1 .. Len(attackers)}
  /\ exhausted = enemyUnits
  /\ life \in Lives

\* The game is about to pose a prompt (promptCardChoice) outside a decision
\* of think(): its queue has been run to the end.
InitChoice ==
  /\ NoMechanic
  /\ thought = TRUE
  /\ phase = "Play"
  /\ hand = {} /\ canPlayResource = FALSE
  /\ budget \in 0 .. MaxBudget
  /\ power = [e \in EnchantmentIds |-> 0]
  /\ myUnits = {} /\ enemyUnits = {} /\ canAttack = {}
  /\ ableToBlock = {} /\ exhausted = {} /\ attackers = <<>>
  /\ life \in {10}
  /\ prompting = "pending"
  /\ prompt \in [player : {"ai", "enemy"},
                  options : DistinctSeqs(ChoiceCards, MaxOptions),
                  min : 0 .. MaxOptions, max : 0 .. MaxOptions,
                  callback : BOOLEAN,
                  heuristicType : HeuristicTypes]
  /\ \A i, j \in 1 .. Len(prompt.options) :
       i # j => prompt.options[i] # prompt.options[j]

\* A unit with the Shielded mechanic has been played (Shielded.run has
\* registered the event) and is about to take damage; no decision and no
\* prompt is pending.
InitDamage ==
  /\ NoCrypt
  /\ thought = TRUE
  /\ prompt = NoPrompt /\ prompting = "none"
  /\ phase = "Play"
  /\ hand = {} /\ canPlayResource = FALSE /\ budget = 0
  /\ power = [e \in EnchantmentIds |-> 0]
  /\ struck \in {u \in OwnIds : Units[u].shielded}
  /\ myUnits = {struck}
  /\ enemyUnits = {} /\ canAttack = {}
  /\ ableToBlock = {} /\ exhausted = {} /\ attackers = <<>>
  /\ life \in {10}
  /\ attached = TRUE
  /\ depleted = FALSE
  /\ damageLog = <<>>

\* A card of the engine's player with the ReturnFromCrypt mechanic is about
\* to trigger; no decision and no prompt is pending.
InitCrypt ==
  /\ NoShield
  /\ thought = TRUE
  /\ prompt = NoPrompt /\ prompting = "none"
  /\ phase = "Play"
  /\ hand = {} /\ canPlayResource = FALSE
  /\ budget \in {0, 3}
  /\ power = [e \in EnchantmentIds |-> 0]
  /\ myUnits = {} /\ enemyUnits = {} /\ canAttack = {}
  /\ ableToBlock = {} /\ exhausted = {} /\ attackers = <<>>
  /\ life \in {10}
  /\ crypt \in DistinctSeqs(CryptCards, MaxCrypt)
  /\ \A i, j \in 1 .. Len(crypt) : i # j => crypt[i] # crypt[j]
  /\ allowed \in CardTypes
  /\ drawn = <<>>
  /\ cryptLog = NoCryptLog

Init ==
  InitCommon /\ (InitPlay \/ InitCombat \/ InitBlock \/ InitChoice \/ InitDamage
                 \/ InitCrypt)

\* ------------------------------------------------------------ operations
\* think(), block phase: block() runs to its end and queues the blocks.
ThinkBlock ==
  /\ ~thought
  /\ phase = "Block"
  /\ LET sorted == SortByThreat(attackers)
         trace == BlockPass(sorted, SumDamage(sorted),
                            PotentialBlockers(myUnits, ableToBlock), life)
     IN  /\ blockTrace' = trace
         /\ actionSequence' = SequenceActions(actionSequence, BlockSteps(trace))
  /\ thought' = TRUE
  /\ lastOp' = "block"
  /\ UNCHANGED <<mechanics, choice, game, board, declared, plan, commit, spent, runBudget>>

\* think() with the attack queued ahead of the sequencer.
ThinkPlay_AttackFirst ==
  /\ ~thought
  /\ phase # "Block"
  /\ actionSequence' =
       SequenceActions(actionSequence,
                       IF canPlayResource
                       THEN <<PlayResourceStep, AttackStep, SelectActionsStep>>
                       ELSE <<AttackStep, SelectActionsStep>>)
  /\ thought' = TRUE
  /\ lastOp' = "think"
  /\ UNCHANGED <<mechanics, choice, game, board, declared, plan, commit, spent, runBudget, blockTrace>>

\* think(), any other phase: the resource play (when allowed), the
\* sequencer, then the attack.
ThinkPlay ==
  /\ ~thought
  /\ phase # "Block"
  /\ actionSequence' =
       SequenceActions(actionSequence,
                       IF canPlayResource
                       THEN <<PlayResourceStep, SelectActionsStep, AttackStep>>
                       ELSE <<SelectActionsStep, AttackStep>>)
  /\ thought' = TRUE
  /\ lastOp' = "think"
  /\ UNCHANGED <<mechanics, choice, game, board, declared, plan, commit, spent, runBudget, blockTrace>>

\* playResource: game.playResource adds one to the pool and uses up the
\* turn's resource play.
PlayResource ==
  /\ actionSequence # <<>>
  /\ Head(actionSequence).op = "playResource"
  /\ actionSequence' = Tail(actionSequence)
  /\ budget' = budget + 1
  /\ canPlayResource' = FALSE
  /\ lastOp' = "playResource"
  /\ UNCHANGED <<mechanics, choice, phase, hand, power, board, declared, thought, plan, commit,
                 spent, runBudget, blockTrace>>

\* selectActions.  When evaluateEnchantment raises, selectActions ends there:
\* nothing is queued, and the queue either goes on with its next step or is
\* abandoned.
SelectActions ==
  /\ actionSequence # <<>>
  /\ Head(actionSequence).op = "selectActions"
  /\ \E energy \in {budget} :
       IF EnchantmentRaises(power, energy)
       THEN /\ actionSequence' \in {Tail(actionSequence), <<>>}
            /\ plan' = [NoPlan EXCEPT !.energy = energy]
            /\ lastOp' = "selectActions raised"
       ELSE \E actions \in {Candidates(hand, energy, power)} :
              \E chosen \in ActionsToRun(energy, actions) :
                \E best \in BestOf(chosen, actions) :
                  /\ actionSequence' = Resequence(Tail(actionSequence), actions, best)
                  /\ plan' = [energy |-> energy, actions |-> actions,
                              chosen |-> chosen, best |-> best,
                              queued |-> (actionSequence' # Tail(actionSequence))]
                  /\ lastOp' = "selectActions"
  /\ runBudget' = IF runBudget < 0 THEN budget ELSE runBudget
  /\ UNCHANGED <<mechanics, choice, game, board, declared, thought, commit, spent, blockTrace>>

\* game.playCardExtern, when the game accepts the play: the card leaves the
\* hand and its cost leaves the pool.
PlayCardExtern(c) ==
  /\ hand' = hand \ {c}
  /\ budget' = budget - Cards[c].cost
  /\ power' = power

\* game.modifyEnchantment, when the game accepts it: the modify cost leaves
\* the pool; the owner empowers, the other player diminishes.
ModifyEnchantment(e) ==
  /\ budget' = budget - Enchantments[e].modifyCost
  /\ power' = [power EXCEPT ![e] = IF Enchantments[e].mine THEN @ + 1 ELSE @ - 1]
  /\ hand' = hand

\* runEvaluatedAction (with runCardPlayAction): the game either accepts the
\* action or returns false and changes nothing; an action with neither card
\* nor enchantment returns false.
RunEvaluatedAction ==
  /\ actionSequence # <<>>
  /\ Head(actionSequence).op = "runEvaluatedAction"
  /\ LET action == Head(actionSequence).action
     IN  \E accepted \in BOOLEAN :
           LET ok == accepted /\ (action.card # 0 \/ action.enchantmentTarget # 0)
           IN  /\ IF ok /\ action.card # 0 THEN PlayCardExtern(action.card)
                  ELSE IF ok THEN ModifyEnchantment(action.enchantmentTarget)
                  ELSE UNCHANGED <<hand, budget, power>>
               /\ commit' = [action |-> action, before |-> budget,
                             after |-> budget', ok |-> ok]
               /\ spent' = IF ok THEN spent + action.cost ELSE spent
  /\ actionSequence' = Tail(actionSequence)
  /\ lastOp' = "runEvaluatedAction"
  /\ UNCHANGED <<mechanics, choice, phase, canPlayResource, board, declared, thought, plan, runBudget, blockTrace>>

\* attack.
Attack ==
  /\ actionSequence # <<>>
  /\ Head(actionSequence).op = "attack"
  /\ declaredAttackers' = declaredAttackers
                          \cup AttackersToDeclare(myUnits, canAttack, enemyUnits, exhausted)
  /\ actionSequence' = Tail(actionSequence)
  /\ lastOp' = "attack"
  /\ UNCHANGED <<mechanics, choice, game, board, declaredBlocks, thought, plan, commit, spent, runBudget, blockTrace>>

\* makeBlockAction: game.declareBlocker(blocker, attacker).
DeclareBlocker ==
  /\ actionSequence # <<>>
  /\ Head(actionSequence).op = "declareBlocker"
  /\ declaredBlocks' = declaredBlocks
                       \cup {<<Head(actionSequence).blocker, Head(actionSequence).attacker>>}
  /\ actionSequence' = Tail(actionSequence)
  /\ lastOp' = "declareBlocker"
  /\ UNCHANGED <<mechanics, choice, game, board, declaredAttackers, thought, plan, commit, spent, runBudget, blockTrace>>

\* makeChoice, the handler of game.promptCardChoice.
MakeChoice ==
  /\ prompting = "pending"
  /\ prompting' = "called"
  /\ IF ~prompt.callback
     THEN UNCHANGED <<deferred, timeouts, answers, choiceLog>>
     ELSE /\ deferred' = Append(deferred, [player |-> prompt.player,
                                           options |-> prompt.options,
                                           min |-> prompt.min, max |-> prompt.max])
          /\ IF prompt.player # "ai"
             THEN UNCHANGED <<timeouts, answers, choiceLog>>
             ELSE LET choiceCards == GetCardToChoose(prompt.options, prompt.min,
                                                    prompt.max, prompt.heuristicType,
                                                    budget)
                      scheduled == ScheduleAnswer(timeouts, answers, choiceCards.cards)
                  IN  /\ choiceLog' = choiceCards
                      /\ timeouts' = scheduled.timeouts
                      /\ answers' = scheduled.answers
  /\ lastOp' = "makeChoice"
  /\ UNCHANGED <<mechanics, prompt, game, board, actionSequence, declared, thought, plan,
                 commit, spent, runBudget, blockTrace>>

\* The game's call of promptCardChoice returns to the game.
PromptReturns ==
  /\ prompting = "called"
  /\ prompting' = "returned"
  /\ lastOp' = "promptReturned"
  /\ UNCHANGED <<mechanics, prompt, deferred, timeouts, answers, choiceLog, game, board,
                 actionSequence, declared, thought, plan, commit, spent,
                 runBudget, blockTrace>>

\* A continuation registered with setTimeout(..., 0) runs, once no call is
\* on the stack: () => this.game.makeChoice(this.playerNumber, choiceCards).
\* The game hands the answer to the prompt's callback; for a ReturnFromCrypt
\* prompt that is the callback of onTrigger.
RunTimeout ==
  /\ timeouts # <<>>
  /\ prompting # "called"
  /\ answers' = Append(answers, Head(timeouts))
  /\ timeouts' = Tail(timeouts)
  /\ IF allowed # "none"
     THEN LET result == Raise(crypt, drawn, Head(timeouts))
          IN  /\ crypt' = result.crypt
              /\ drawn' = result.drawn
              /\ cryptLog' = [cryptLog EXCEPT !.before = crypt, !.delivered = TRUE]
     ELSE UNCHANGED <<crypt, drawn, cryptLog>>
  /\ lastOp' = "timeout"
  /\ UNCHANGED <<shield, allowed, prompt, prompting, deferred, choiceLog, game, board,
                 actionSequence, declared, thought, plan, commit, spent,
                 runBudget, blockTrace>>

\* ReturnFromCrypt.onTrigger: the owner is prompted to choose at most one of
\* the crypt's cards of the allowed type, under the Draw heuristic.
OnTrigger ==
  /\ allowed # "none"
  /\ prompting = "none"
  /\ prompt' = [player |-> "ai", options |-> GetValidCards(crypt, allowed),
                min |-> 0, max |-> 1, callback |-> TRUE,
                heuristicType |-> "DrawHeuristic"]
  /\ prompting' = "pending"
  /\ lastOp' = "onTrigger"
  /\ UNCHANGED <<mechanics, deferred, timeouts, answers, choiceLog, game, board,
                 actionSequence, declared, thought, plan, commit, spent,
                 runBudget, blockTrace>>

\* Between the return of the prompting call and the delivery of the answer
\* the game goes on: a card is put into the crypt, or a card leaves it.
CryptChanges ==
  /\ allowed # "none"
  /\ prompting = "returned"
  /\ timeouts # <<>>
  /\ ~cryptLog.changed
  /\ \/ \E c \in CryptCards :
          /\ IndexOf(crypt, c) < 0
          /\ crypt' = Append(crypt, c)
     \/ \E k \in 1 .. Len(crypt) : crypt' = Splice(crypt, k - 1)
  /\ cryptLog' = [cryptLog EXCEPT !.changed = TRUE]
  /\ lastOp' = "cryptChanges"
  /\ UNCHANGED <<shield, allowed, drawn, choice, game, board, actionSequence,
                 declared, thought, plan, commit, spent, runBudget, blockTrace>>

\* Mutant of Shielded's handler: depleted is not set.
ShieldedTakeDamage_Lasting(isDepleted, amount) ==
  IF isDepleted THEN [amount |-> amount, depleted |-> isDepleted]
  ELSE [amount |-> 0, depleted |-> isDepleted]

\* Shielded's TakeDamage handler: the params it returns and the flag.
ShieldedTakeDamage(isDepleted, amount) ==
  IF isDepleted THEN [amount |-> amount, depleted |-> isDepleted]
  ELSE [amount |-> 0, depleted |-> TRUE]

\* A TakeDamage event of the unit is triggered with some amount; the handler
\* runs when it is among the unit's events.
TakeDamage ==
  /\ struck # 0
  /\ Len(damageLog) < MaxDamageEvents
  /\ \E amount \in DamageAmounts :
       LET params == IF attached THEN ShieldedTakeDamage(depleted, amount)
                     ELSE [amount |-> amount, depleted |-> depleted]
       IN  /\ depleted' = params.depleted
           /\ damageLog' = Append(damageLog, [amount |-> amount,
                                              taken |-> params.amount,
                                              shielded |-> attached])
  /\ lastOp' = "takeDamage"
  /\ UNCHANGED <<struck, attached, crypts, choice, game, board, actionSequence, declared,
                 thought, plan, commit, spent, runBudget, blockTrace>>

\* Shielded.remove: the mechanic's events leave the unit.
ShieldedRemove ==
  /\ struck # 0
  /\ attached
  /\ attached' = FALSE
  /\ lastOp' = "shieldedRemove"
  /\ UNCHANGED <<struck, depleted, damageLog, crypts, choice, game, board, actionSequence,
                 declared, thought, plan, commit, spent, runBudget, blockTrace>>

\* Shielded.run: the same mechanic object registers its event again.
ShieldedRun ==
  /\ struck # 0
  /\ ~attached
  /\ attached' = TRUE
  /\ lastOp' = "shieldedRun"
  /\ UNCHANGED <<struck, depleted, damageLog, crypts, choice, game, board, actionSequence,
                 declared, thought, plan, commit, spent, runBudget, blockTrace>>

Next ==
  \/ ThinkBlock
  \/ ThinkPlay
  \/ PlayResource
  \/ SelectActions
  \/ RunEvaluatedAction
  \/ Attack
  \/ DeclareBlocker
  \/ MakeChoice
  \/ PromptReturns
  \/ RunTimeout
  \/ TakeDamage
  \/ ShieldedRemove
  \/ ShieldedRun
  \/ OnTrigger
  \/ CryptChanges

Spec == Init /\ [][Next]_vars

\* A few decisions, for the properties of whole runs: the sequencer keeps
\* running queued steps while there are any.
InitFew ==
  /\ InitCommon
  /\ \/ /\ InitPlay
        /\ hand \subseteq {1, 4, 12}
        /\ budget \in {0, 3}
        /\ power[2] = 0
        /\ power[3] = 0
     \/ /\ InitBlock
        /\ myUnits = {1, 2}
        /\ Len(attackers) = 1
        /\ life = 3
     \/ /\ InitChoice
        /\ budget = 2
        /\ prompt.options = <<1, 5>>
        /\ prompt.min = 1
        /\ prompt.max = 1
     \/ InitDamage
     \/ /\ InitCrypt
        /\ budget = 3
        /\ Len(crypt) = 2

FairSpec == InitFew /\ [][Next]_vars /\ WF_vars(Next)

\* ============================================================ claims
IsRunStep(step) == step.op = "runEvaluatedAction"
IsSelectStep(step) == step.op = "selectActions"
QueuedRuns == {i \in 1 .. Len(actionSequence) : IsRunStep(actionSequence[i])}
QueuedSelects == {i \in 1 .. Len(actionSequence) : IsSelectStep(actionSequence[i])}
JustSelected == lastOp = "selectActions"
JustCommitted == lastOp = "runEvaluatedAction"
AllOf(actions) == 1 .. Len(actions)

\* C1: in every sequencer step the cost of the committed action is at most
\* the budget read at the start of that step, and the total cost of the
\* actions committed in a run never exceeds the budget the run started with.
C1_CommitWithinBudget ==
  /\ JustCommitted => commit.action.cost <= plan.energy
  /\ (JustSelected /\ plan.best # 0) => plan.actions[plan.best].cost <= plan.energy
  /\ runBudget >= 0 => spent <= runBudget

\* C1 witness: two or more accepted commits have used up a budget of 5.
C1_Witness ==
  /\ JustCommitted /\ commit.ok
  /\ runBudget = 5 /\ spent = 5 /\ commit.action.cost < 5 /\ commit.action.cost > 0

C3_OneBestPerStep ==
  /\ Cardinality(QueuedRuns) <= 1
  /\ QueuedRuns # {} =>
       /\ QueuedRuns = {1}
       /\ JustSelected
       /\ plan.best \in plan.chosen
       /\ actionSequence[1].action = plan.actions[plan.best]
       /\ \A j \in plan.chosen :
            RLeq(plan.actions[j].score, plan.actions[plan.best].score)
  /\ JustCommitted =>
       /\ commit.action = plan.actions[plan.best]
       /\ QueuedRuns = {}
       /\ actionSequence # <<>> /\ IsSelectStep(Head(actionSequence))

\* C3 witness: a commit ran although the optimizer had chosen three actions.
C3_Witness ==
  /\ JustCommitted /\ commit.ok
  /\ Cardinality(plan.chosen) = 3
  /\ \E j \in plan.chosen : RLess(plan.actions[j].score, commit.action.score)

PositiveAffordable(actions, energy) ==
  {i \in AllOf(actions) : RPos(actions[i].score) /\ actions[i].cost <= energy}

C5_RunTerminates ==
  (lastOp = "think") ~> (JustSelected /\ ~plan.queued)

\* C6: replanning is strictly after the commit: directly after a selection
\* that queued a commit, the next step run is the commit of the selected
\* action (no selectActions and no attack in between), and directly after a
\* commit the next step run is selectActions; steps run one at a time.
C6_CommitBeforeReplan ==
  [][ /\ (JustSelected /\ plan.queued) =>
           /\ lastOp' = "runEvaluatedAction"
           /\ commit'.action = plan.actions[plan.best]
      /\ JustCommitted => lastOp' = "selectActions" ]_vars

\* C6 witness: an accepted commit has completed, replanning is the next
\* step in the queue and the attack waits behind it.
C6_Witness ==
  /\ JustCommitted /\ commit.ok
  /\ Len(actionSequence) = 2
  /\ IsSelectStep(actionSequence[1])
  /\ actionSequence[2].op = "attack"

\* C7, as stated: each commit strictly reduces the remaining budget, by the
\* committed action's cost.
C7_StrictlyReduces ==
  (JustCommitted /\ commit.ok) =>
    /\ commit.after = commit.before - commit.action.cost
    /\ commit.after < commit.before

\* C7, amended: an accepted commit reduces the budget by exactly the
\* committed action's cost, strictly when that cost is positive and not at
\* all when it is zero; a refused commit leaves the budget as it was.
C7_ReducesByCost ==
  JustCommitted =>
    /\ budget = commit.after
    /\ commit.ok =>
         /\ commit.after = commit.before - commit.action.cost
         /\ commit.action.cost > 0 => commit.after < commit.before
         /\ commit.action.cost = 0 => commit.after = commit.before
    /\ ~commit.ok => commit.after = commit.before

\* C7 witness: a card of cost 0 was played and the budget, which was not
\* empty, is what it was.
C7_Witness ==
  /\ JustCommitted /\ commit.ok
  /\ commit.action.card # 0
  /\ commit.action.cost = 0
  /\ commit.before > 0
  /\ commit.after = commit.before

PushedEntries == {i \in 1 .. Len(blockTrace) : blockTrace[i].pushed}
BlockerOf(i) == blockTrace[i].options[blockTrace[i].best].blocker
InSeq(x, seq) == \E k \in 1 .. Len(seq) : seq[k] = x
QueuedBlocks ==
  {i \in 1 .. Len(actionSequence) : actionSequence[i].op = "declareBlocker"}

\* C8: within one block planner pass no blocker is in more than one
\* committed block: a committed blocker is gone from the pool and from the
\* options of every later attacker, and no blocker is declared twice.
C8_BlockerUsedOnce ==
  /\ \A i, j \in PushedEntries : i # j => BlockerOf(i) # BlockerOf(j)
  /\ \A i \in PushedEntries : \A j \in 1 .. Len(blockTrace) :
       i < j =>
         /\ ~InSeq(BlockerOf(i), blockTrace[j].pool)
         /\ \A k \in 1 .. Len(blockTrace[j].options) :
              blockTrace[j].options[k].blocker # BlockerOf(i)
  /\ \A i, j \in QueuedBlocks :
       i # j => actionSequence[i].blocker # actionSequence[j].blocker
  /\ \A p, q \in declaredBlocks : p[1] = q[1] => p = q

\* C8 witness: two blocks were declared in one pass, and the first blocker
\* would have been the best pairing for the second attacker as well.
C8_Witness ==
  /\ lastOp = "declareBlocker"
  /\ Cardinality(declaredBlocks) = 2
  /\ Len(blockTrace) = 2
  /\ PushedEntries = {1, 2}
  /\ LET again == Options(blockTrace[2].attacker, blockTrace[1].pool)
     IN  again[BestOption(again)].blocker = BlockerOf(1)

\* The units of the player that are able to block this turn.
AbleBlockers(mine, able) == Ascending({u \in mine : u \in able})

\* The able blockers not committed before entry i of the pass.
AbleLeft(i) ==
  SelectSeq(AbleBlockers(myUnits, ableToBlock),
            LAMBDA u : ~ \E j \in PushedEntries : j < i /\ BlockerOf(j) = u)

\* C9: the planner commits the chosen matchup for an attacker exactly when
\* a legal matchup exists and (a) the running total of incoming damage is
\* at least the life, or (b) the outcome is AttackerDies or NeitherDies, or
\* (c) it is BothDie with trade score <= 0; on commit the running total
\* goes down by the attacker's damage, otherwise it is unchanged.
C9_CommitIffWarranted ==
  \A i \in 1 .. Len(blockTrace) :
    LET entry == blockTrace[i]
        legal == Options(entry.attacker, AbleLeft(i))
        chosen == BestOption(legal)
    IN  /\ entry.pushed <=>
             /\ chosen # 0
             /\ \/ entry.total >= life
                \/ legal[chosen].type \in {AttackerDies, NeitherDies}
                \/ legal[chosen].type = BothDie /\ legal[chosen].tradeScore <= 0
        /\ entry.after = IF entry.pushed
                         THEN entry.total - Units[entry.attacker].damage
                         ELSE entry.total
        /\ entry.total = IF i = 1 THEN SumDamage(SortByThreat(attackers))
                         ELSE blockTrace[i - 1].after

\* C10: every blocker the planner commits is a unit of the player that is
\* able to block this turn and may block that attacker.
C10_BlockersLegal ==
  /\ \A i \in PushedEntries :
       /\ BlockerOf(i) \in myUnits
       /\ BlockerOf(i) \in ableToBlock
       /\ CanBlockTarget(BlockerOf(i), blockTrace[i].attacker)
  /\ \A p \in declaredBlocks :
       p[1] \in myUnits /\ p[1] \in ableToBlock /\ CanBlockTarget(p[1], p[2])

NeutralOrBetter(option) == option.type \in {AttackerDies, NeitherDies}
EvenTrade(option) == option.type = BothDie /\ option.tradeScore <= 0
SomeOption(options, Test(_)) == \E k \in 1 .. Len(options) : Test(options[k])
HarmlessPass == SumDamage(SortByThreat(attackers)) < life

JustAttacked == lastOp = "attack"
Untapped == enemyUnits \ exhausted

\* C12: the attack planner declares a unit exactly when it can attack this
\* turn, its damage is positive and no non-exhausted enemy unit can
\* favorably block it; one such enemy unit is enough to withhold it.
C12_AttackIffUnopposed ==
  JustAttacked =>
    \A u \in OwnIds :
      u \in declaredAttackers <=>
        /\ u \in myUnits
        /\ u \in canAttack
        /\ Units[u].damage > 0
        /\ \A b \in Untapped : ~CanFavorablyBlock(u, b)

\* C12 witness: one attack declared a unit, withheld another because of
\* exactly one of two untapped enemy units, and left out a unit of damage 0
\* that could attack.
C12_Witness ==
  /\ JustAttacked
  /\ declaredAttackers # {}
  /\ Cardinality(Untapped) = 2
  /\ \E u \in canAttack \ declaredAttackers :
       /\ Units[u].damage > 0
       /\ Cardinality({b \in Untapped : CanFavorablyBlock(u, b)}) = 1
  /\ \E u \in canAttack \ declaredAttackers : Units[u].damage = 0

\* The pairings the attack planner tests: own units against enemy units.
Pairings == myUnits \X enemyUnits

\* C13, as stated: the favorable-block test of (attacker, blocker) is true
\* exactly when the outcome is AttackerDies, or NeitherDies, or BothDie with
\* the blocker's valuation strictly greater than the attacker's.
C13_FavorableWhenBlockerWorthMore ==
  \A p \in Pairings :
    CanFavorablyBlock(p[1], p[2]) <=>
      \/ CategorizeBlock(p[1], p[2]) \in {AttackerDies, NeitherDies}
      \/ /\ CategorizeBlock(p[1], p[2]) = BothDie
         /\ Units[p[2]].value > Units[p[1]].value

\* C13, amended: the test is true exactly when the blocker may block the
\* attacker and the outcome is AttackerDies, or NeitherDies, or BothDie with
\* the attacker's valuation strictly greater than the blocker's.
C13_FavorableWhenAttackerWorthMore ==
  \A p \in Pairings :
    CanFavorablyBlock(p[1], p[2]) <=>
      /\ Units[p[1]].flying => Units[p[2]].flying
      /\ \/ CategorizeBlock(p[1], p[2]) \in {AttackerDies, NeitherDies}
         \/ /\ CategorizeBlock(p[1], p[2]) = BothDie
            /\ Units[p[1]].value > Units[p[2]].value

\* C13 witness: an attack withheld a unit over a BothDie pairing in which it
\* is worth more than the blocker, and declared a unit whose only pairing
\* is BothDie with a blocker worth more than it.
C13_Witness ==
  /\ JustAttacked
  /\ \E u \in canAttack \ declaredAttackers : \E b \in Untapped :
       /\ CategorizeBlock(u, b) = BothDie
       /\ Units[u].value > Units[b].value
       /\ \A c \in Untapped \ {b} : ~CanFavorablyBlock(u, c)
  /\ \E u \in declaredAttackers : \E b \in Untapped :
       /\ CategorizeBlock(u, b) = BothDie
       /\ Units[b].value > Units[u].value

\* C14, as stated: whenever the classifier gives NeitherDies for (a, b),
\* canFavorablyBlock(a, b) is true.
C14_NeitherDiesIsFavorable ==
  \A p \in Pairings :
    CategorizeBlock(p[1], p[2]) = NeitherDies => CanFavorablyBlock(p[1], p[2])

\* C14, amended: whenever the classifier gives NeitherDies for (a, b) and
\* b may block a, canFavorablyBlock(a, b) is true; when b may not block a
\* (a flies and b does not) it is false whatever the classifier gives.
C14_NeitherDiesAndMayBlock ==
  \A p \in Pairings :
    /\ (CategorizeBlock(p[1], p[2]) = NeitherDies /\ CanBlockTarget(p[2], p[1]))
         => CanFavorablyBlock(p[1], p[2])
    /\ ~CanBlockTarget(p[2], p[1]) => ~CanFavorablyBlock(p[1], p[2])

\* C14 witness: an attack declared a flying unit although the one untapped
\* enemy unit, which cannot block it, is classified NeitherDies against it,
\* and withheld a unit over a NeitherDies pairing with that same enemy unit.
C14_Witness ==
  /\ JustAttacked
  /\ \E b \in Untapped :
       /\ Untapped = {b}
       /\ \E u \in declaredAttackers :
            CategorizeBlock(u, b) = NeitherDies /\ ~CanBlockTarget(b, u)
       /\ \E u \in canAttack \ declaredAttackers :
            CategorizeBlock(u, b) = NeitherDies /\ Units[u].damage > 0

\* The cards and enchantments the step just run had to evaluate (the game
\* is as selectActions read it until the next commit).
PlayableNow == Ascending({c \in hand : IsPlayable(c, hand, plan.energy)})
ModifiableNow == GetModifiableEnchantments(power, plan.energy)
SelectRaised == lastOp = "selectActions raised"

\* C15: an exception raised while evaluating one candidate, a playable card
\* or a modifiable enchantment, is caught: the cycle completes, that
\* candidate is the placeholder of score 0 and cost 0, and every other
\* candidate is evaluated and handed to the optimizer.
C15_ExceptionIsolated ==
  /\ ~SelectRaised
  /\ JustSelected =>
       /\ Len(plan.actions) = Len(PlayableNow) + Len(ModifiableNow)
       /\ \A i \in 1 .. Len(PlayableNow) :
            plan.actions[i] = IF EvaluateCardThrows(PlayableNow[i])
                              THEN Placeholder
                              ELSE EvaluateCard(PlayableNow[i])
       /\ \A i \in 1 .. Len(ModifiableNow) :
            plan.actions[Len(PlayableNow) + i] =
              IF EvaluateEnchantmentThrows(ModifiableNow[i])
              THEN Placeholder
              ELSE EvaluateEnchantment(ModifiableNow[i], power[ModifiableNow[i]])

\* The two structural impossibilities: a playable card that needs a
\* mandatory target and has no legal target, and a playable item with no
\* unit among its hosts.
NoLegalTarget(c) ==
  Cards[c].needsInput /\ ~Cards[c].optional /\ Len(Cards[c].targets) = 0
NoEligibleHost(c) ==
  Cards[c].item /\ \A k \in 1 .. Len(Cards[c].hosts) : ~Cards[c].hosts[k].unit

OwnPrompt == prompt.callback /\ prompt.player = "ai"
Posed == prompting \in {"called", "returned"}

\* C17: for a prompt with a callback addressed to the engine's player the
\* engine registers the choice (deferChoice) and submits exactly one answer
\* (game.makeChoice), through a zero-delay continuation that runs only after
\* the prompting call has returned; for a prompt to the other player or
\* with no callback it submits no answer.
C17_OneDeferredAnswer ==
  /\ ~Posed => (deferred = <<>> /\ timeouts = <<>> /\ answers = <<>>)
  /\ (Posed /\ OwnPrompt) =>
       /\ Len(deferred) = 1
       /\ Len(timeouts) + Len(answers) = 1
  /\ (Posed /\ ~OwnPrompt) => (timeouts = <<>> /\ answers = <<>>)
  /\ prompting = "called" => answers = <<>>
  /\ answers # <<>> =>
       /\ prompting = "returned"
       /\ deferred # <<>>
       /\ answers[1] = choiceLog.cards

\* C17 witness: the continuation has run after the prompting call returned
\* and has submitted the one answer, a card of the prompt.
C17_Witness ==
  /\ lastOp = "timeout"
  /\ OwnPrompt
  /\ prompting = "returned"
  /\ timeouts = <<>>
  /\ Len(answers) = 1
  /\ Len(answers[1]) = 1
  /\ Len(prompt.options) = 3

\* C18: for every heuristic tag, when there are fewer candidates than min,
\* getCardToChoose returns the candidate list itself, unchanged and in the
\* same order, and invokes no heuristic.
C18_BelowMinUnchanged ==
  (Posed /\ OwnPrompt /\ Len(prompt.options) < prompt.min) =>
    /\ choiceLog.cards = prompt.options
    /\ choiceLog.invoked = 0
    /\ timeouts \o answers = <<prompt.options>>

\* C18 witness: two candidates were offered with min 3 and max 1 under a tag
\* whose heuristic would have reordered and cut them; both came back in the
\* order offered.
C18_Witness ==
  /\ Posed /\ OwnPrompt
  /\ Len(prompt.options) = 2
  /\ prompt.min = 3 /\ prompt.max = 1
  /\ GetHeuristic(prompt.heuristicType, prompt.options, prompt.min, prompt.max, budget)
       # prompt.options
  /\ answers = <<prompt.options>>

\* The same prompt under the other of the tags Draw and Discard.
OtherChoice ==
  GetCardToChoose(prompt.options, prompt.min, prompt.max,
                  IF prompt.heuristicType = "DrawHeuristic"
                  THEN "DiscardHeuristic" ELSE "DrawHeuristic",
                  budget).cards
DrawOrDiscardOfOne ==
  /\ Posed /\ OwnPrompt
  /\ prompt.heuristicType \in {"DrawHeuristic", "DiscardHeuristic"}
  /\ prompt.min = 1 /\ prompt.max = 1
  /\ prompt.options # <<>>
  /\ \A i, j \in 1 .. Len(prompt.options) :
       i # j => Cards[prompt.options[i]].cost # Cards[prompt.options[j]].cost
DistancesDiffer ==
  \E i, j \in 1 .. Len(prompt.options) :
    CardDrawHeuristic(prompt.options[i], budget)
      # CardDrawHeuristic(prompt.options[j], budget)

\* C19, as stated: with min = max = 1 and a non-empty candidate list of
\* pairwise distinct costs, the card Draw chooses is different from the
\* card Discard chooses.
C19_DrawDiscardDiffer ==
  DrawOrDiscardOfOne => choiceLog.cards # OtherChoice

\* C19, amended: under the same conditions each heuristic chooses one card,
\* and the two cards are different exactly when the candidates' distances
\* | budget - cost | are not all equal; with one candidate, or with all
\* candidates equally far from the budget, both choose the same card.
C19_DrawDiscardDifferByDistance ==
  DrawOrDiscardOfOne =>
    /\ Len(choiceLog.cards) = 1 /\ Len(OtherChoice) = 1
    /\ choiceLog.cards # OtherChoice <=> DistancesDiffer

\* C19 witness: two candidates of costs 3 and 1 at budget 2: both
\* heuristics choose the first.
C19_Witness ==
  /\ DrawOrDiscardOfOne
  /\ Len(prompt.options) = 2
  /\ ~DistancesDiffer
  /\ choiceLog.cards = OtherChoice
  /\ choiceLog.cards = <<prompt.options[1]>>

\* The evaluated entries of the playable cards that require a target and
\* whose evaluation completes.
TargetedEntries ==
  {i \in 1 .. Len(PlayableNow) :
     Cards[PlayableNow[i]].needsInput /\ ~EvaluateCardThrows(PlayableNow[i])}
IsGreatest(targets, k) == \A j \in 1 .. Len(targets) : targets[j] <= targets[k]
SomePositive(targets) == \E j \in 1 .. Len(targets) : targets[j] > 0

\* C20: for a card that requires a target, the action carries no target and
\* scores the card's play evaluation alone when targeting is optional and
\* the best target's score is <= 0; it carries a maximum-scoring legal
\* target, even one of score <= 0, when targeting is mandatory or the best
\* score is > 0; the score is the card's evaluation plus the chosen
\* target's score (0 when none) and the cost is the card's cost.
C20_TargetChoice ==
  JustSelected =>
    \A i \in TargetedEntries :
      LET card == Cards[PlayableNow[i]]
          action == plan.actions[i]
          withTarget == Len(card.targets) > 0
                        /\ (~card.optional \/ SomePositive(card.targets))
      IN  /\ action.card = PlayableNow[i]
          /\ action.cost = card.cost
          /\ withTarget <=> action.target # 0
          /\ action.target # 0 =>
               /\ action.target \in 1 .. Len(card.targets)
               /\ IsGreatest(card.targets, action.target)
               /\ action.score = RInt(card.play + card.targets[action.target])
          /\ action.target = 0 => action.score = RInt(card.play)

\* C20 witness: one step evaluated an optional card whose best target
\* scores 0 (no target kept), a mandatory card whose best target scores
\* below 0 (kept), and an optional card with a positive best target (kept).
C20_Witness ==
  /\ JustSelected
  /\ \E i \in TargetedEntries :
       /\ Cards[PlayableNow[i]].optional
       /\ Len(Cards[PlayableNow[i]].targets) > 0
       /\ plan.actions[i].target = 0
  /\ \E i \in TargetedEntries :
       /\ ~Cards[PlayableNow[i]].optional
       /\ plan.actions[i].target # 0
       /\ Cards[PlayableNow[i]].targets[plan.actions[i].target] < 0
  /\ \E i \in TargetedEntries :
       /\ Cards[PlayableNow[i]].optional
       /\ plan.actions[i].target # 0

\* Lexicographic order on pairings: category first, then trade score.
LexLeq(x, y) ==
  \/ x.type < y.type
  \/ x.type = y.type /\ x.tradeScore <= y.tradeScore

\* C21: for each attacker the chosen matchup is lexicographically minimal
\* among all legal pairings with not-yet-assigned blockers: lowest outcome
\* category and, within that category, lowest trade score.
C21_ChosenIsLexMinimal ==
  \A i \in 1 .. Len(blockTrace) :
    LET entry == blockTrace[i]
        legal == Options(entry.attacker, AbleLeft(i))
    IN  /\ legal # <<>> => entry.best # 0
        /\ entry.best # 0 =>
             /\ InSeq(entry.options[entry.best], legal)
             /\ \A k \in 1 .. Len(legal) :
                  LexLeq(entry.options[entry.best], legal[k])

\* The prompt was answered by the heuristic of its tag: enough candidates
\* and min <= max.
Answered(tag) ==
  /\ Posed /\ OwnPrompt
  /\ prompt.heuristicType = tag
  /\ Len(prompt.options) >= prompt.min
  /\ prompt.min <= prompt.max
Distance(c) == CardDrawHeuristic(c, budget)
AboveAverage(c) ==
  Distance(c) * Cardinality(DeckCards) > SumHeuristic(DeckCards, budget)
Returned(c) == InSeq(c, choiceLog.cards)
Offered == {prompt.options[k] : k \in 1 .. Len(prompt.options)}

\* C22: with at least min candidates and min <= max the Replace heuristic
\* returns the min candidates of largest distance | budget - cost | as
\* mandatory, then at most max - min further candidates, each of distance
\* strictly above the average distance over the deck's unique cards, taken
\* in ascending order of distance; nothing at or below the average is
\* returned beyond the mandatory min.
C22_ReplaceMandatoryThenAboveAverage ==
  Answered("ReplaceHeuristic") =>
    LET r == choiceLog.cards
        n == Len(r)
    IN  /\ prompt.min <= n /\ n <= prompt.max
        /\ \A k \in 1 .. n : r[k] \in Offered
        /\ \A k \in 1 .. prompt.min : \A c \in Offered :
             (\A j \in 1 .. prompt.min : r[j] # c) => Distance(c) <= Distance(r[k])
        /\ \A k \in prompt.min + 1 .. n :
             /\ AboveAverage(r[k])
             /\ k < n => Distance(r[k]) <= Distance(r[k + 1])
             /\ \A c \in Offered :
                  (AboveAverage(c) /\ ~Returned(c)) =>
                    (n = prompt.max /\ Distance(r[k]) <= Distance(c))
        /\ (\E c \in Offered : AboveAverage(c) /\ ~Returned(c)) => n = prompt.max

\* C22 witness: of three candidates with min 1 and max 2 the farthest was
\* returned as mandatory, one above the average followed it, and the third,
\* not above the average, was left out.
C22_Witness ==
  /\ Answered("ReplaceHeuristic")
  /\ answers = <<choiceLog.cards>>
  /\ Len(prompt.options) = 3
  /\ prompt.min = 1 /\ prompt.max = 2
  /\ Len(choiceLog.cards) = 2
  /\ AboveAverage(choiceLog.cards[2])
  /\ \E c \in Offered : ~Returned(c) /\ ~AboveAverage(c)

\* The TakeDamage events the unit took while it bore the mechanic.
ShieldedEvents == {k \in 1 .. Len(damageLog) : damageLog[k].shielded}

\* C23: a unit bearing Shielded absorbs exactly one damage instance: of the
\* damage events it takes while bearing it, the first is reduced to 0 and
\* every later one keeps its amount; the shield, once depleted, is never
\* restored.
C23_ShieldAbsorbsOnce ==
  /\ [](/\ \A k \in ShieldedEvents :
            damageLog[k].taken =
              IF \A j \in ShieldedEvents : k <= j THEN 0 ELSE damageLog[k].amount
        /\ depleted <=> ShieldedEvents # {})
  /\ [][depleted => depleted']_vars

\* C23 witness: three hits of 2 on the unit while it bore the mechanic: 0,
\* then 2 and 2 were taken.
C23_Witness ==
  /\ lastOp = "takeDamage"
  /\ Len(damageLog) = 3
  /\ ShieldedEvents = {1, 2, 3}
  /\ \A k \in 1 .. 3 : damageLog[k].amount = 2
  /\ <<damageLog[1].taken, damageLog[2].taken, damageLog[3].taken>> = <<0, 2, 2>>
  /\ depleted

\* ---------------------------------------------------------------------------
\* C24

\* The steps of the sequencer: planning and the commits it queues.
SequencerOps == {"selectActions", "selectActions raised", "runEvaluatedAction"}

\* C24: the operations of a decision are ordered.  Outside the block phase the
\* resource play happens only when canPlayResource holds and before any
\* planning, card play or effect modification; the attack is run only when no
\* planning step and no commit is left in the queue; and once the attack has
\* run, no resource is played, nothing is planned, no card is played and no
\* effect is modified.  In the block phase only block declarations are issued:
\* the hand, the pool, the enchantments and the declared attackers stay as
\* they are.
C24_OperationsOrdered ==
  [][ /\ lastOp' = "playResource" =>
           /\ canPlayResource
           /\ lastOp = "think"
           /\ runBudget < 0 /\ spent = 0 /\ commit = NoCommit
      /\ lastOp' = "attack" =>
           /\ QueuedRuns = {} /\ QueuedSelects = {}
           /\ runBudget >= 0
      /\ (lastOp = "attack" \/ declaredAttackers # {}) =>
           /\ lastOp' \notin SequencerOps \cup {"playResource"}
           /\ UNCHANGED <<hand, budget, power, spent, commit, canPlayResource>>
      /\ phase = "Block" =>
           /\ lastOp' \in {"block", "declareBlocker"}
           /\ UNCHANGED <<hand, budget, power, canPlayResource, declaredAttackers,
                          spent, commit>>
    ]_vars

\* The resource play made a card affordable, the card was played, and then
\* attackers were declared.
C24_Witness ==
  /\ JustAttacked
  /\ declaredAttackers # {}
  /\ spent > 0
  /\ commit.ok
  /\ runBudget > 0
  /\ ~canPlayResource
  /\ hand = {}

\* ---------------------------------------------------------------------------
\* C25

\* The list submitted for the prompt is well formed: only offered cards, none
\* twice, and between min and max of them.
WellFormedChoice ==
  LET r == choiceLog.cards
  IN  /\ \A k \in 1 .. Len(r) : r[k] \in Offered
      /\ \A i, j \in 1 .. Len(r) : i # j => r[i] # r[j]
      /\ prompt.min <= Len(r) /\ Len(r) <= prompt.max
      /\ ~choiceLog.logged

\* C25: for every heuristic tag (Draw, Discard, Replace, HighestStats), when
\* min <= max and at least min candidates are offered, the list returned by
\* getCardToChoose holds only offered candidates, holds none of them twice,
\* and its length lies between min and max inclusive.
C25_ChoiceWellFormed ==
  \A tag \in HeuristicTypes : Answered(tag) => WellFormedChoice

\* C25 witness: more candidates than max were offered with 0 < min < max, and
\* the answer is shorter than the offer.
C25_Witness ==
  /\ \E tag \in HeuristicTypes : Answered(tag)
  /\ Len(prompt.options) = 3
  /\ prompt.min = 1 /\ prompt.max = 2
  /\ Len(choiceLog.cards) \in {1, 2}
  /\ choiceLog.invoked = 2
  /\ answers = <<choiceLog.cards>>

\* ---------------------------------------------------------------------------
\* C26

\* The answer handed to the callback, and the cards the callback took out of
\* the crypt.
Delivered == cryptLog.delivered
Answer == answers[Len(answers)]
CardsOf(seq) == {seq[k] : k \in 1 .. Len(seq)}
LeftCrypt == CardsOf(cryptLog.before) \ CardsOf(crypt)

\* C26: when a ReturnFromCrypt prompt is answered through the deferred
\* submission, the answer holds at most one card, of the allowed type; each
\* card of the answer is added to the owner's hand; and the only cards the
\* callback removes from the crypt are cards of the answer, even when the
\* crypt changed between the prompt and the delivery.
C26_OnlyAnswerLeavesCrypt ==
  Delivered =>
    /\ Len(Answer) <= 1
    /\ \A k \in 1 .. Len(Answer) : CardType[Answer[k]] = allowed
    /\ drawn = Answer
    /\ LeftCrypt \subseteq CardsOf(Answer)

====
